---- MODULE Spec2Model ----
(***************************************************************************)
(* A model of svgplot.py: the StyleMap vocabulary, the SVG wrapper with    *)
(* its four normalisation passes (classify, slim, svg2, uid), the tree     *)
(* walk SVG.iter and the two entry points savefig and minify.              *)
(*                                                                         *)
(* A Python str is a sequence of atoms.  An atom is a one-character string *)
(* for every character some function of the program treats specially       *)
(* (whitespace, "#", "-", "_", ";", ":", "(", ")"), and otherwise a word   *)
(* of characters none of which the functions applied to that string treat  *)
(* specially (a colour "#1f77b4" inside a style text, a name "line1"       *)
(* inside an id).                                                          *)
(***************************************************************************)
EXTENDS Integers, Sequences, FiniteSets, TLC

VARIABLES
    pc,       \* position of the running entry point / of the driver
    err,      \* the exception that ended the run, "" when none
    entry,    \* "savefig" or "minify"
    idArg,    \* the id argument of the entry point: <<>> is None, <<u>> is u
    svgId,    \* SVG.id
    el,       \* SVG.el: the element tree, node -> element, node 0 is the root
    orig,     \* the tree as parsed (history)
    out,      \* what Path.write_text has written: <<>> or <<[path, content]>>
    passes,   \* the passes that have completed, in order (history)
    string,   \* argument of insert / _slim
    ins,      \* second argument of insert
    ins2,     \* the unique id of a second document
    res,      \* insert(string, ins)
    res2,     \* insert(string, ins2)
    tag,      \* argument of SVG.iter
    yielded   \* what SVG.iter(tag) has yielded, in order

vars == <<pc, err, entry, idArg, svgId, el, orig, out, passes,
          string, ins, ins2, res, res2, tag, yielded>>

----------------------------------------------------------------------------
(* Bounds *)

\* longest attribute value slim is tried on
MaxLen == 4
\* longest identifier insert is tried on
MaxIdLen == 3
\* length of the tokens of make_uid in the model
UidLen == 2
\* elements below the root in the trees SVG.iter is tried on
MaxNodes == 4
\* calls of slim in a row
MaxSlims == 2

----------------------------------------------------------------------------
(* Python str and list primitives *)

None == <<>>
Some(x) == <<x>>

Whitespace == {" ", "\t", "\n"}

RECURSIVE Join(_)
\* "".join(parts)
Join(parts) ==
    IF parts = <<>> THEN <<>> ELSE Head(parts) \o Join(Tail(parts))

\* filter(None, parts): the empty strings are dropped
FilterNone(parts) == SelectSeq(parts, LAMBDA p : p # <<>>)

\* str.replace(old, new) for one-character old and new
Replace(s, old, new) ==
    [i \in 1..Len(s) |-> IF s[i] = old THEN new ELSE s[i]]

\* str.rfind(sep) + 1, 0 when sep does not occur
RFind(s, sep) ==
    IF \E i \in 1..Len(s) : s[i] = sep
    THEN CHOOSE i \in 1..Len(s) :
            s[i] = sep /\ \A j \in (i+1)..Len(s) : s[j] # sep
    ELSE 0

\* str.rpartition(sep): <<before, sep, after>>, or <<"", "", s>>
RPartition(s, sep) ==
    LET i == RFind(s, sep)
    IN  IF i = 0 THEN << <<>>, <<>>, s >>
        ELSE << SubSeq(s, 1, i-1), <<sep>>, SubSeq(s, i+1, Len(s)) >>

\* s.startswith(p)
StartsWith(s, p) == Len(s) >= Len(p) /\ SubSeq(s, 1, Len(p)) = p

\* str.strip()
Strip(s) ==
    IF \A i \in 1..Len(s) : s[i] \in Whitespace THEN <<>>
    ELSE LET a == CHOOSE i \in 1..Len(s) :
                    s[i] \notin Whitespace
                    /\ \A j \in 1..(i-1) : s[j] \in Whitespace
             b == CHOOSE i \in 1..Len(s) :
                    s[i] \notin Whitespace
                    /\ \A j \in (i+1)..Len(s) : s[j] \in Whitespace
         IN  SubSeq(s, a, b)

RECURSIVE SplitFrom(_, _, _)
\* str.split(sep) for a one-character sep: a list of strings
SplitFrom(s, sep, cur) ==
    IF s = <<>> THEN <<cur>>
    ELSE IF Head(s) = sep THEN <<cur>> \o SplitFrom(Tail(s), sep, <<>>)
    ELSE SplitFrom(Tail(s), sep, Append(cur, Head(s)))

Split(s, sep) == SplitFrom(s, sep, <<>>)

RECURSIVE JoinWith(_, _)
\* sep.join(parts)
JoinWith(parts, sep) ==
    IF parts = <<>> THEN <<>>
    ELSE IF Len(parts) = 1 THEN Head(parts)
    ELSE Head(parts) \o sep \o JoinWith(Tail(parts), sep)

\* all strings over alphabet A of length at most n
StrUpTo(A, n) == UNION {[1..k -> A] : k \in 0..n}

----------------------------------------------------------------------------
(* SVG.uid: insert *)

\* the string with its last hyphen-delimited suffix simply prefixed by ins
insert_NoIns(str, u) ==
    LET s1 == Replace(str, "_", "-")
        p  == RPartition(s1, "#")
        q  == RPartition(p[3], "-")
    IN  Join(FilterNone(<<p[1], p[2], q[1], q[2], <<"-">>, q[3]>>))

insert(str, u) ==
    LET s1 == Replace(str, "_", "-")
        p  == RPartition(s1, "#")
        q  == RPartition(p[3], "-")
    IN  Join(FilterNone(<<p[1], p[2], q[1], q[2], u, <<"-">>, q[3]>>))

----------------------------------------------------------------------------
(* SVG.slim: the regular expression  ^\s+|\s+$|\s+(?=\s)  replaced by "" *)

\* length of the whitespace run of s that starts at position i
RECURSIVE RunLen(_, _)
RunLen(s, i) ==
    IF i > Len(s) \/ s[i] \notin Whitespace THEN 0 ELSE 1 + RunLen(s, i+1)

\* the same for  ^\s|\s$|\s+(?=\s) : one character at either end
MatchLen_NoPlus(s, i) ==
    LET run == RunLen(s, i)
    IN  IF run = 0 THEN 0
        ELSE IF i = 1 THEN 1
        ELSE IF i + run - 1 = Len(s) THEN (IF run = 1 THEN 1 ELSE run - 1)
        ELSE IF run >= 2 THEN run - 1
        ELSE 0

\* length of the match of the expression at position i, 0 when none:
\* ^\s+ takes a leading run, \s+$ a run that reaches the end, and
\* \s+(?=\s) a run but for its last character
MatchLen(s, i) ==
    LET run == RunLen(s, i)
    IN  IF run = 0 THEN 0
        ELSE IF i = 1 THEN run
        ELSE IF i + run - 1 = Len(s) THEN run
        ELSE IF run >= 2 THEN run - 1
        ELSE 0

RECURSIVE SubFrom(_, _)
\* re.sub scanning from position i: matches are dropped, the rest is kept
SubFrom(s, i) ==
    IF i > Len(s) THEN <<>>
    ELSE LET m == MatchLen(s, i)
         IN  IF m > 0 THEN SubFrom(s, i + m)
             ELSE <<s[i]>> \o SubFrom(s, i + 1)

_slim(s) == SubFrom(s, 1)

----------------------------------------------------------------------------
(* StyleMap *)

\* a dict is a sequence of <<key, value>> pairs in insertion order
Has(dict, key) == \E i \in 1..Len(dict) : dict[i][1] = key

Get(dict, key) ==
    dict[CHOOSE i \in 1..Len(dict) : dict[i][1] = key][2]

_global ==
    << <<"stroke-linecap", <<"butt">>>>,
       <<"stroke-linejoin", <<"round">>>> >>

_text ==
    << <<"stroke", <<"none">>>>,
       <<"fill", <<"#000000">>>> >>

stroke ==
    << << <<"#ffffff">>, "primary">>,
       << <<"#000000">>, "primary-text">>,
       << <<"#cccccc">>, "secondary">>,
       << <<"#1f77b4">>, "blue">>,
       << <<"#ff7f0e">>, "orange">>,
       << <<"#2ca02c">>, "green">>,
       << <<"#d62728">>, "red">>,
       << <<"#9467bd">>, "purple">>,
       << <<"#8c564b">>, "brown">>,
       << <<"#e377c2">>, "pink">>,
       << <<"#7f7f7f">>, "grey">>,
       << <<"#bcbd22">>, "olive">>,
       << <<"#17becf">>, "cyan">> >>

fill ==
    << << <<"none">>, "no-fill">>,
       << <<"#ffffff">>, "bg">> >>

stroke_width ==
    << << <<"0.8">>, "thin">>,
       << <<"1.5">>, "thick">> >>

stroke_line_join ==
    << << <<"round">>, "rounded">>,
       << <<"miter">>, "miter">> >>

stroke_line_cap ==
    << << <<"butt">>, "butt">>,
       << <<"square">>, "square">> >>

font ==
    << << <<"10px", " ", "'sans-serif'">>, "regular">> >>

text_anchor ==
    << << <<"start">>, "left-align">>,
       << <<"middle">>, "center-align">>,
       << <<"end">>, "right-align">> >>

attributes ==
    << << <<"fill">>, fill>>,
       << <<"stroke">>, stroke>>,
       << <<"stroke-width">>, stroke_width>>,
       << <<"stroke-linejoin">>, stroke_line_join>>,
       << <<"stroke-linecap">>, stroke_line_cap>>,
       << <<"font">>, font>>,
       << <<"text-anchor">>, text_anchor>> >>

\* StyleMap.parse: the stripped fields of each rule, no rule for ""
parse(style) ==
    IF style = <<>> THEN <<>>
    ELSE LET rules == Split(style, ";")
         IN  [i \in 1..Len(rules) |->
                LET fields == Split(rules[i], ":")
                IN  [j \in 1..Len(fields) |-> Strip(fields[j])]]

\* the classes of the _global entries
GlobalClasses ==
    [i \in 1..Len(_global) |->
        Get(Get(attributes, <<_global[i][1]>>), _global[i][2])]

RECURSIVE RuleClasses(_)
\* the loop over the parsed rules: [err, classes]; unpacking a rule that has
\* not two fields raises ValueError, an unmapped attribute or value KeyError
RuleClasses(rules) ==
    IF rules = <<>> THEN [err |-> "", classes |-> <<>>]
    ELSE LET r == Head(rules)
         IN  IF Len(r) # 2 THEN [err |-> "ValueError", classes |-> <<>>]
             ELSE IF ~Has(attributes, r[1])
                     \/ ~Has(Get(attributes, r[1]), r[2])
                  THEN [err |-> "KeyError", classes |-> <<>>]
             ELSE LET rest == RuleClasses(Tail(rules))
                  IN  [err |-> rest.err,
                       classes |-> <<Get(Get(attributes, r[1]), r[2])>>
                                    \o rest.classes]

\* " ".join(classes) after the classes of the _global entries
ClassResult(rc) ==
    [err |-> rc.err,
     val |-> JoinWith([i \in 1..Len(GlobalClasses \o rc.classes) |->
                        <<(GlobalClasses \o rc.classes)[i]>>], <<" ">>)]

\* the same without the _global entries when no rule was parsed
ClassResult_NoGlobal(rc, style) ==
    IF style = <<>> THEN [err |-> rc.err, val |-> <<>>] ELSE ClassResult(rc)

\* a classify that applies the _global entries only to a non-empty style
StyleMap_classify_NoGlobal(style) ==
    ClassResult_NoGlobal(RuleClasses(parse(style)), style)

\* StyleMap.classify: [err, val]; err = "" when it returns val
StyleMap_classify(style) == ClassResult(RuleClasses(parse(style)))

\* f".{selector} {{ {attr}: {rule}; }}"
SelectorRule(selector, attr, rule) ==
    <<".", selector, " ", "{", " ">> \o attr \o <<":", " ">> \o rule
        \o <<";", " ", "}">>

\* the rules of one attribute family, in insertion order
GroupRules(attr, group) ==
    Join([i \in 1..Len(group) |-> SelectorRule(group[i][2], attr, group[i][1])])

\* "; ".join(f"{attr}: {rule}" for attr, rule in _text.items())
text_rule ==
    JoinWith([i \in 1..Len(_text) |->
                <<_text[i][1], ":", " ">> \o _text[i][2]], <<";", " ">>)

\* StyleMap.tostring
StyleMap_tostring ==
    Join([i \in 1..Len(attributes) |->
            GroupRules(attributes[i][1], attributes[i][2])])
    \o <<".", "text", " ", "{", " ">> \o text_rule \o <<";", " ", "}">>

----------------------------------------------------------------------------
(* Elements and the tree: xml.etree.ElementTree.Element *)

\* node 0 is the root; an element's attrib is a function from the names of
\* the attributes it carries to their values
Root == 0

Elem(tg, attrib, text, tail, children) ==
    [tag |-> tg, attrib |-> attrib, text |-> text, tail |-> tail,
     children |-> children]

\* the dict built from a sequence of <<key, value>> pairs
Dict(pairs) ==
    [k \in {pairs[i][1] : i \in 1..Len(pairs)} |-> Get(pairs, k)]

\* el.set(name, value)
SetAttr(e, name, value) ==
    [e EXCEPT !.attrib =
        [k \in DOMAIN e.attrib \cup {name} |->
            IF k = name THEN value ELSE e.attrib[k]]]

\* el.attrib.pop(name, ...): the element without the attribute
PopAttr(e, name) ==
    [e EXCEPT !.attrib = [k \in DOMAIN e.attrib \ {name} |-> e.attrib[k]]]

\* el.get(name, default)
GetAttr(e, name, default) ==
    IF name \in DOMAIN e.attrib THEN e.attrib[name] ELSE default

\* the attribute a path predicate "[@name]" tests, "" for a tag path
PredAttr(path) ==
    CASE path = "[@id]" -> "id"
      [] path = "[@href]" -> "href"
      [] path = "[@clip-path]" -> "clip-path"
      [] path = "[@style]" -> "style"
      [] OTHER -> ""

\* a walk whose predicate paths test the children, as tag paths do
Iterfind_Children(t, n, path) ==
    LET kids == t[n].children
    IN  IF PredAttr(path) # ""
        THEN SelectSeq(kids, LAMBDA c : PredAttr(path) \in DOMAIN t[c].attrib)
        ELSE IF path = "*" THEN kids
        ELSE SelectSeq(kids, LAMBDA c : t[c].tag = path)

\* el.iterfind(path): a bare predicate selects the element itself, "*" the
\* children, a tag the children of that tag
Iterfind(t, n, path) ==
    LET kids == t[n].children
    IN  IF PredAttr(path) # ""
        THEN (IF PredAttr(path) \in DOMAIN t[n].attrib THEN <<n>> ELSE <<>>)
        ELSE IF path = "*" THEN kids
        ELSE SelectSeq(kids, LAMBDA c : t[c].tag = path)

\* a depth-first pre-order walk: each child, then at once its subtree
RECURSIVE iter_PreOrder(_, _, _)
iter_PreOrder(t, n, path) ==
    LET kids == t[n].children
    IN  Join([i \in 1..Len(kids) |->
                (IF path = "*" \/ t[kids[i]].tag = path
                 THEN <<kids[i]>> ELSE <<>>)
                \o iter_PreOrder(t, kids[i], path)])

\* SVG._iter: what iterfind yields at el, then the walk of each child
RECURSIVE _iter(_, _, _)
_iter(t, n, path) ==
    LET kids == t[n].children
    IN  Iterfind(t, n, path)
        \o Join([i \in 1..Len(kids) |-> _iter(t, kids[i], path)])

\* SVG.iter
iter(t, path) == _iter(t, Root, path)

\* SVG.style: el.find("defs/style"), <<>> for None
style(t) ==
    LET defs == SelectSeq(t[Root].children, LAMBDA c : t[c].tag = "defs")
        found == Join([i \in 1..Len(defs) |->
                    SelectSeq(t[defs[i]].children,
                              LAMBDA c : t[c].tag = "style")])
    IN  IF found = <<>> THEN None ELSE Some(Head(found))

----------------------------------------------------------------------------
(* SVG.set_none *)

\* the words of class attributes in the order of Python's str comparison
CodeOrder ==
    <<"axes", "bg", "blue", "brown", "butt", "center-align", "cyan", "green",
      "grey", "left-align", "mine", "miter", "no-fill", "olive", "orange",
      "pink", "primary", "primary-text", "purple", "red", "regular",
      "right-align", "rounded", "secondary", "square", "text", "thick",
      "thin", "zz">>

Rank(a) == CHOOSE i \in 1..Len(CodeOrder) : CodeOrder[i] = a

RECURSIVE Less(_, _)
\* x < y for two strings
Less(x, y) ==
    IF y = <<>> THEN FALSE
    ELSE IF x = <<>> THEN TRUE
    ELSE IF Head(x) = Head(y) THEN Less(Tail(x), Tail(y))
    ELSE Rank(Head(x)) < Rank(Head(y))

RECURSIVE Sorted(_)
\* sorted(S) for a set of strings
Sorted(S) ==
    IF S = {} THEN <<>>
    ELSE LET m == CHOOSE x \in S : \A y \in S \ {x} : Less(x, y)
         IN  <<m>> \o Sorted(S \ {m})

\* if new_value: el.set(attr, new_value)
SetIfAny(e, attr, new_value) ==
    IF new_value # <<>> THEN SetAttr(e, attr, new_value) ELSE e

\* the set of the elements of a list
ToSet(seq) == {seq[i] : i \in 1..Len(seq)}

set_none(e, attr, value) ==
    SetIfAny(e, attr,
        JoinWith(FilterNone(Sorted(ToSet(Split(GetAttr(e, attr, <<>>), " ")
                                         \o Split(value, " ")))), <<" ">>))

----------------------------------------------------------------------------
(* The passes of SVG.  A pass that can raise returns [el, err]: the tree as *)
(* the pass leaves it and the exception raised, "" when it returns.         *)

Nodes(t) == DOMAIN t

\* c.text.strip() if c.text is not None else None
SlimText(text) == IF text = None THEN None ELSE Some(Strip(text[1]))

\* SVG.slim: el.iter() visits the root and every descendant
SVG_slim(t) ==
    [n \in Nodes(t) |->
        [t[n] EXCEPT !.text = SlimText(t[n].text),
                     !.tail = None,
                     !.attrib = [k \in DOMAIN t[n].attrib |->
                                    _slim(t[n].attrib[k])]]]

\* the attributes of the xlink namespace and their plain names (name[N:])
XlinkNames == {"{xlink}href", "{xlink}title"}

LocalName(name) ==
    CASE name = "{xlink}href" -> "href"
      [] name = "{xlink}title" -> "title"

RECURSIVE Fix(_, _)
\* _fix applied to each of the keys of one element
Fix(e, keys) ==
    IF keys = {} THEN e
    ELSE LET name == CHOOSE k \in keys : TRUE
             e1 == IF name \in XlinkNames
                   THEN SetAttr(PopAttr(e, name), LocalName(name),
                                e.attrib[name])
                   ELSE e
         IN  Fix(e1, keys \ {name})

\* an svg2 that leaves the namespaced attributes alone
SVG_svg2_Skip(t) == t

\* SVG.svg2: self.iter() visits every element but the root
SVG_svg2(t) ==
    [n \in Nodes(t) |->
        IF n \in ToSet(iter(t, "*")) THEN Fix(t[n], DOMAIN t[n].attrib)
        ELSE t[n]]

RECURSIVE UidLoop(_, _, _, _)
\* one loop of SVG.uid over the elements a walk has yielded
UidLoop(t, nodes, attr, id) ==
    IF nodes = <<>> THEN t
    ELSE LET n == Head(nodes)
         IN  UidLoop([t EXCEPT ![n] =
                        SetAttr(t[n], attr, insert(t[n].attrib[attr], id))],
                     Tail(nodes), attr, id)

IdLoop(t, id) == UidLoop(t, iter(t, "[@id]"), "id", id)

HrefLoop(t, id) == UidLoop(t, iter(t, "[@href]"), "href", id)

ClipLoop(t, id) == UidLoop(t, iter(t, "[@clip-path]"), "clip-path", id)

\* SVG.uid
SVG_uid(t, id) == ClipLoop(HrefLoop(IdLoop(t, id), id), id)

\* the classes of one path, use or text element merged into its class
AddClasses(e0, val, isText) ==
    IF isText THEN set_none(set_none(e0, "class", val), "class", <<"text">>)
    ELSE set_none(e0, "class", val)

\* one element of a loop of SVG.classify: e0 is the element with its style
\* popped, r what StyleMap.classify made of that style
ClassifyOne(st, n, isText, r, e0) ==
    IF r.err # ""
    THEN [el |-> [st.el EXCEPT ![n] = e0], err |-> r.err]
    ELSE [el |-> [st.el EXCEPT ![n] = AddClasses(e0, r.val, isText)],
          err |-> ""]

RECURSIVE ClassifyLoop(_, _, _)
\* a loop of SVG.classify over path, use or text elements; the style is
\* popped before StyleMap.classify is called on it
ClassifyLoop(st, nodes, isText) ==
    IF st.err # "" \/ nodes = <<>> THEN st
    ELSE ClassifyLoop(
            ClassifyOne(st, Head(nodes), isText,
                StyleMap_classify(GetAttr(st.el[Head(nodes)], "style", <<>>)),
                PopAttr(st.el[Head(nodes)], "style")),
            Tail(nodes), isText)

\* text drawn as path gets the class text
FontOne(e) ==
    IF StartsWith(e.attrib["id"], <<"DejaVuSans">>)
    THEN set_none(e, "class", <<"text">>) ELSE e

RECURSIVE FontLoop(_, _)
\* the loop over the elements with an id
FontLoop(t, nodes) ==
    IF nodes = <<>> THEN t
    ELSE FontLoop([t EXCEPT ![Head(nodes)] = FontOne(t[Head(nodes)])],
                  Tail(nodes))

\* self.style.text = StyleMap.tostring()
SetStyleText(t, found) ==
    IF found = None THEN [el |-> t, err |-> "AttributeError"]
    ELSE [el |-> [t EXCEPT ![found[1]].text = Some(StyleMap_tostring)],
          err |-> ""]

\* the assertion and the assignment that end SVG.classify
ClassifyEnd(t) ==
    IF Len(iter(t, "[@style]")) # 0
    THEN [el |-> t, err |-> "AssertionError"]
    ELSE SetStyleText(t, style(t))

PathLoop(st) == ClassifyLoop(st, iter(st.el, "path"), FALSE)

UseLoop(st) == ClassifyLoop(st, iter(st.el, "use"), FALSE)

FontStep(st) ==
    IF st.err # "" THEN st
    ELSE [el |-> FontLoop(st.el, iter(st.el, "[@id]")), err |-> ""]

TextLoop(st) == ClassifyLoop(st, iter(st.el, "text"), TRUE)

EndStep(st) == IF st.err # "" THEN st ELSE ClassifyEnd(st.el)

\* SVG.classify
SVG_classify(t) ==
    EndStep(TextLoop(FontStep(UseLoop(PathLoop([el |-> t, err |-> ""])))))

----------------------------------------------------------------------------
(* The documents the entry points are run on *)

UidAlphabet == {"x", "0"}

\* make_uid: the tokens, UidLen characters long
Uids == [1..UidLen -> UidAlphabet]

\* inline styles: empty, mapped (plain and with whitespace around the
\* fields), an unmapped value, an unmapped attribute, a trailing semicolon
StyleChoices ==
    { <<>>,
      <<"stroke", ":", "#1f77b4", ";", "stroke-width", ":", "0.8">>,
      <<" ", "stroke", " ", ":", " ", "#1f77b4", " ", ";", " ",
        "fill", ":", " ", "none">>,
      <<"stroke", ":", "#123456">>,
      <<"opacity", ":", "0.5">>,
      <<"stroke", ":", "#1f77b4", ";">> }

ClassChoices == { <<"thin", " ", " ", "mine">> }

IdChoices == { <<"line1">>, <<"DejaVuSans", "-", "65">> }

\* an attribute absent, or present with one of the values
Opt(name, values) == { <<>> } \cup { << <<name, v>> >> : v \in values }

\* the tree: root 0 with defs 1 (holding style 2 when hasStyle) and the
\* element x as node 3; y, when there is one, is node 4, after x under the
\* root ("sibling") or inside x ("nested")
MkDoc(rootAttr, hasStyle, x, place, y) ==
    [n \in {0, 1, 3} \cup (IF hasStyle THEN {2} ELSE {})
                     \cup (IF place = "none" THEN {} ELSE {4}) |->
        CASE n = 0 -> Elem("svg", rootAttr, Some(<<"\n", " ">>), None,
                           IF place = "sibling" THEN <<1, 3, 4>>
                           ELSE <<1, 3>>)
          [] n = 1 -> Elem("defs", Dict(<<>>), Some(<<"\n", " ">>),
                           Some(<<"\n">>),
                           IF hasStyle THEN <<2>> ELSE <<>>)
          [] n = 2 -> Elem("style", Dict(<<>>), None, Some(<<"\n">>), <<>>)
          [] n = 3 -> Elem(x.tag, x.attrib, None, Some(<<"\n">>),
                           IF place = "nested" THEN <<4>> ELSE <<>>)
          [] n = 4 -> Elem(y.tag, y.attrib, None, Some(<<"\n">>), <<>>)]

NoElem == [tag |-> "", attrib |-> Dict(<<>>)]

\* documents that vary the styles, classes and tags
StyleDocs ==
    { MkDoc(Dict(ra), hs, [tag |-> xt, attrib |-> Dict(xs \o xc \o xi)],
            "none", NoElem) :
        ra \in Opt("style", {<<"fill", ":", "none">>}),
        hs \in BOOLEAN,
        xt \in {"path", "use", "text", "g"},
        xs \in Opt("style", StyleChoices),
        xc \in Opt("class", ClassChoices),
        xi \in Opt("id", IdChoices) }
    \cup
    { MkDoc(Dict(<<>>), TRUE,
            [tag |-> xt, attrib |-> Dict(xs \o <<<<"id", <<"g", "_", "1">>>>>>)],
            place, [tag |-> yt, attrib |-> Dict(ys)]) :
        xt \in {"path", "g"},
        xs \in Opt("style", {<<"stroke", ":", "#1f77b4">>}),
        place \in {"sibling", "nested"},
        yt \in {"path", "use", "text", "rect"},
        ys \in Opt("style", StyleChoices) }

\* identifiers without "#" and without whitespace
RefIds == StrUpTo({"a", "-", "_"}, MaxIdLen)

\* the ways an element refers to the identifier s
Refs(s) ==
    { << <<"{xlink}href", <<"#">> \o s>> >>,
      << <<"href", <<"#">> \o s>> >>,
      << <<"clip-path", <<"url", "(", "#">> \o s \o <<")">>>> >>,
      << <<"{xlink}href", <<"#">> \o s>>, <<"href", <<"#", "old">>>>,
         <<"{xlink}title", <<"t">>>> >> }

\* documents in which element 4 refers to element 3, whose id is s
RefDocsOf(s) ==
    { MkDoc(Dict(<<>>), TRUE,
            [tag |-> xt, attrib |-> Dict(<< <<"id", s>> >>)],
            place, [tag |-> "use", attrib |-> Dict(r)]) :
        xt \in {"path", "clipPath"},
        place \in {"sibling", "nested"},
        r \in Refs(s) }

RefDocs == UNION {RefDocsOf(s) : s \in RefIds}

Docs == StyleDocs \cup RefDocs

\* the path the entry point is given, and Path.with_stem(stem + "-min")
InPath == [stem |-> <<"test">>, suffix |-> <<".svg">>]

MinPath(path) == [path EXCEPT !.stem = path.stem \o <<"-min">>]

----------------------------------------------------------------------------
(* savefig and minify *)

NoInsert ==
    /\ string = <<>> /\ ins = <<>> /\ ins2 = <<>> /\ res = <<>> /\ res2 = <<>>

NoIter == tag = "*" /\ yielded = <<>>

Init ==
    /\ pc = "start"
    /\ err = ""
    /\ entry \in {"savefig", "minify"}
    /\ idArg \in {None, Some(<<"fig", "1">>)}
    /\ svgId = None
    /\ el \in Docs
    /\ orig = el
    /\ out = None
    /\ passes = <<>>
    /\ NoInsert
    /\ NoIter

\* SVG.fromstring(f.getvalue(), id) and SVG.frompath(path, id): the id is
\* passed in the place of the parser, so a given id is handed to ElementTree
\* as the parser (AttributeError) and SVG.__init__ always draws make_uid()
Parse ==
    /\ pc = "start"
    /\ IF idArg # None
       THEN /\ pc' = "aborted"
            /\ err' = "AttributeError"
            /\ svgId' = svgId
       ELSE /\ pc' = "parsed"
            /\ err' = err
            /\ svgId' \in Uids
    /\ UNCHANGED <<entry, idArg, el, orig, out, passes,
                   string, ins, ins2, res, res2, tag, yielded>>

\* svg.classify() has returned, or raised r.err
Classified(r) ==
    /\ el' = r.el
    /\ err' = r.err
    /\ pc' = IF r.err = "" THEN "classified" ELSE "aborted"
    /\ passes' = IF r.err = "" THEN Append(passes, "classify") ELSE passes

Classify ==
    /\ pc = "parsed"
    /\ Classified(SVG_classify(el))
    /\ UNCHANGED <<entry, idArg, svgId, orig, out,
                   string, ins, ins2, res, res2, tag, yielded>>

Slim ==
    /\ pc = "classified"
    /\ el' = SVG_slim(el)
    /\ pc' = "slimmed"
    /\ passes' = Append(passes, "slim")
    /\ UNCHANGED <<err, entry, idArg, svgId, orig, out,
                   string, ins, ins2, res, res2, tag, yielded>>

Svg2 ==
    /\ pc = "slimmed"
    /\ el' = SVG_svg2(el)
    /\ pc' = "svg2"
    /\ passes' = Append(passes, "svg2")
    /\ UNCHANGED <<err, entry, idArg, svgId, orig, out,
                   string, ins, ins2, res, res2, tag, yielded>>

Uid ==
    /\ pc = "svg2"
    /\ el' = SVG_uid(el, svgId)
    /\ pc' = "uid"
    /\ passes' = Append(passes, "uid")
    /\ UNCHANGED <<err, entry, idArg, svgId, orig, out,
                   string, ins, ins2, res, res2, tag, yielded>>

\* a run that writes the file before the passes
WritePc_Early == "parsed"

\* where the entry points call path.write_text: after svg.uid()
WritePc == "uid"

\* path.write_text(svg.tostring(), encoding="utf-8")
Write ==
    /\ pc = WritePc
    /\ out' = Some([path |-> IF entry = "minify" THEN MinPath(InPath)
                             ELSE InPath,
                    content |-> el])
    /\ pc' = "written"
    /\ UNCHANGED <<err, entry, idArg, svgId, el, orig, passes,
                   string, ins, ins2, res, res2, tag, yielded>>

Next == Parse \/ Classify \/ Slim \/ Svg2 \/ Uid \/ Write

Spec == Init /\ [][Next]_vars

----------------------------------------------------------------------------
(* Properties of the run of an entry point *)

AllPasses == <<"classify", "slim", "svg2", "uid">>

\* the tokens of the class attribute of an element
ClassTokens(e) == ToSet(FilterNone(Split(GetAttr(e, "class", <<>>), " ")))

\* the stylesheet text holds a rule block ".cls {"
HasRule(css, cls) ==
    \E i \in 1..(Len(css) - 3) :
        css[i] = "." /\ css[i+1] = cls /\ css[i+2] = " " /\ css[i+3] = "{"

\* some element carries a style attribute
HasStyleAttr(t) == \E n \in Nodes(t) : "style" \in DOMAIN t[n].attrib

\* the text of <defs><style>, None when there is no such element
StyleText(t) == IF style(t) = None THEN None ELSE t[style(t)[1]].text

\* number of places where u occurs in s
Occurrences(s, u) ==
    Cardinality({i \in 1..Len(s) :
                    i + Len(u) - 1 <= Len(s) /\ SubSeq(s, i, i + Len(u) - 1) = u})

\* the document of the end-to-end scenario
E2EDoc ==
    MkDoc(Dict(<<>>), TRUE,
          [tag |-> "path",
           attrib |-> Dict(<< <<"style", <<"stroke", ":", "#1f77b4", ";",
                                          "stroke-width", ":", "0.8">>>>,
                              <<"id", <<"line1">>>> >>)],
          "none", NoElem)

\* what the scenario says of the path and of the stylesheet, the id apart
E2EClassesAndSheet ==
    /\ "style" \notin DOMAIN el[3].attrib
    /\ "class" \in DOMAIN el[3].attrib
    /\ ClassTokens(el[3]) = {<<"blue">>, <<"thin">>, <<"butt">>, <<"rounded">>}
    /\ el[2].text # None
    /\ el[2].text[1] # <<>>
    /\ \A c \in {"blue", "thin", "butt", "rounded", "text"} :
            HasRule(el[2].text[1], c)

\* C2 as stated: after classify, slim, svg2, uid the path of the end-to-end
\* document has no style, the class tokens {blue, thin, butt, rounded} and
\* the id "line1-U", and the stylesheet has a rule for each class and .text
C2_AsStated ==
    (orig = E2EDoc /\ pc \in {"uid", "written"}) =>
        /\ E2EClassesAndSheet
        /\ el[3].attrib["id"] = <<"line1", "-">> \o svgId

\* C2 amended: the same, with the id "U-line1": an id without a hyphen gets
\* the unique id in front of it
C2_EndToEnd ==
    (orig = E2EDoc /\ pc \in {"uid", "written"}) =>
        /\ E2EClassesAndSheet
        /\ el[3].attrib["id"] = svgId \o <<"-", "line1">>

C2_Witness ==
    /\ orig = E2EDoc
    /\ pc = "written"
    /\ out[1].content[3].attrib["id"] = svgId \o <<"-", "line1">>

\* some element that classify does not visit (the root, or an element that
\* is no path, use or text) carries a style attribute
Residual(t) ==
    \E n \in Nodes(t) :
        /\ "style" \in DOMAIN t[n].attrib
        /\ n = Root \/ t[n].tag \notin {"path", "use", "text"}

\* C3: classify replaces the stylesheet text only when no element, the root
\* and elements other than path, use, text included, carries a style
\* attribute: once it has returned no style attribute is left, and when one
\* would be left it raises before the stylesheet text is changed
C3_NoResidualStyle ==
    /\ passes # <<>> => ~HasStyleAttr(el)
    /\ StyleText(el) # StyleText(orig) => ~HasStyleAttr(el)
    /\ err = "AssertionError" =>
            /\ HasStyleAttr(el)
            /\ StyleText(el) = StyleText(orig)
            /\ pc = "aborted" /\ passes = <<>>
    /\ (Residual(orig) /\ pc \notin {"start", "parsed"}) =>
            pc = "aborted" /\ err # "" /\ StyleText(el) = StyleText(orig)

C3_Witness ==
    /\ err = "AssertionError"
    /\ "style" \in DOMAIN el[Root].attrib
    /\ \A n \in Nodes(el) \ {Root} : "style" \notin DOMAIN el[n].attrib
    /\ StyleText(el) = StyleText(orig)

\* some inline style holds a pair that is not in the vocabulary
UnknownPair(t) ==
    \E n \in Nodes(t) :
        /\ "style" \in DOMAIN t[n].attrib
        /\ \E i \in 1..Len(parse(t[n].attrib["style"])) :
            /\ Len(parse(t[n].attrib["style"])[i]) = 2
            /\ \/ ~Has(attributes, parse(t[n].attrib["style"])[i][1])
               \/ ~Has(Get(attributes, parse(t[n].attrib["style"])[i][1]),
                       parse(t[n].attrib["style"])[i][2])

\* C4: in savefig and in minify the file is written only after classify,
\* slim, svg2 and uid have completed in that order; a run in which a pass
\* raises writes nothing, and a style with a pair outside the vocabulary
\* makes classify raise
C4_WriteAfterAllPasses ==
    /\ out # None =>
            /\ pc = "written" /\ err = ""
            /\ passes = AllPasses
            /\ out[1].content = el
    /\ pc = "aborted" => out = None /\ err # ""
    /\ UnknownPair(orig) =>
            /\ out = None /\ passes = <<>>
            /\ pc \notin {"start", "parsed"} => pc = "aborted"

C4_Witness ==
    /\ pc = "aborted" /\ err = "KeyError" /\ out = None
    /\ UnknownPair(orig)
    /\ entry = "minify"

\* the path and use elements without style and without the font marker
Unstyled(t) ==
    {n \in Nodes(t) :
        /\ t[n].tag \in {"path", "use"}
        /\ "style" \notin DOMAIN t[n].attrib
        /\ ~("id" \in DOMAIN t[n].attrib
             /\ StartsWith(t[n].attrib["id"], <<"DejaVuSans">>))}

\* C5 as stated: a path or use element without a style attribute (and
\* without the font marker) has the same attributes after classify as before
C5_AsStated ==
    pc = "classified" =>
        \A n \in Unstyled(orig) : el[n].attrib = orig[n].attrib

\* the class value lists its tokens in increasing order, without repeats
SortedClass(e) ==
    LET toks == Split(GetAttr(e, "class", <<>>), " ")
    IN  \A i \in 1..Len(toks) : \A j \in (i+1)..Len(toks) :
            Less(toks[i], toks[j])

\* C5 amended: classify merges classes into every path and use element below
\* the root, styled or not: one without a style attribute (and without the
\* font marker) keeps its other attributes, and its class becomes the sorted
\* set of its former class tokens and the classes butt and rounded of the
\* global defaults
C5_UnstyledGetGlobals ==
    pc = "classified" =>
        \A n \in Unstyled(orig) \ {Root} :
            /\ DOMAIN el[n].attrib = DOMAIN orig[n].attrib \cup {"class"}
            /\ \A k \in DOMAIN orig[n].attrib \ {"class"} :
                    el[n].attrib[k] = orig[n].attrib[k]
            /\ ClassTokens(el[n]) =
                    ClassTokens(orig[n]) \cup {<<"butt">>, <<"rounded">>}
            /\ SortedClass(el[n])

C5_Witness ==
    /\ pc = "classified"
    /\ \E n \in Unstyled(orig) \ {Root} :
        /\ "class" \notin DOMAIN orig[n].attrib
        /\ el[n].attrib["class"] = <<"butt", " ", "rounded">>

----------------------------------------------------------------------------
(* insert on its own: one identifier and the unique ids of two documents *)

IdAlphabet == {"a", "-", "_", "#"}

\* the examples of the comments of insert, with unique ids of 8 characters
Examples ==
    { [s |-> <<"h", "e", "l", "l", "o", "-", "w", "o", "r", "l", "d">>,
       u |-> <<"w", "h", "a", "t", "1", "2", "3", "4">>,
       r |-> <<"h", "e", "l", "l", "o", "-", "w", "h", "a", "t", "1", "2",
               "3", "4", "-", "w", "o", "r", "l", "d">>],
      [s |-> <<"#", "h", "e", "y">>,
       u |-> <<"w", "o", "r", "l", "d", "1", "2", "3", "x">>,
       r |-> <<"#", "w", "o", "r", "l", "d", "1", "2", "3", "x", "-",
               "h", "e", "y">>],
      [s |-> <<"#", "a", "-", "b", "-", "c">>,
       u |-> <<"x", "0", "0", "0", "0", "0", "0", "0">>,
       r |-> <<"#", "a", "-", "b", "-", "x", "0", "0", "0", "0", "0", "0",
               "0", "-", "c">>] }

InsertStrings == StrUpTo(IdAlphabet, MaxIdLen) \cup {x.s : x \in Examples}

InsertUids == Uids \cup {x.u : x \in Examples}

NoDoc ==
    /\ err = "" /\ entry = "" /\ idArg = None /\ svgId = None
    /\ el = <<>> /\ orig = <<>> /\ out = None /\ passes = <<>>

InitInsert ==
    /\ pc = "insert"
    /\ string \in InsertStrings
    /\ ins \in InsertUids
    /\ ins2 \in InsertUids
    /\ res = <<>>
    /\ res2 = <<>>
    /\ NoDoc
    /\ NoIter

\* insert(el.get("id"), self.id) in the first document
InsertFirst ==
    /\ pc = "insert"
    /\ res' = insert(string, ins)
    /\ pc' = "first"
    /\ UNCHANGED <<err, entry, idArg, svgId, el, orig, out, passes,
                   string, ins, ins2, res2, tag, yielded>>

\* insert of the same identifier in a second document
InsertSecond ==
    /\ pc = "first"
    /\ res2' = insert(string, ins2)
    /\ pc' = "both"
    /\ UNCHANGED <<err, entry, idArg, svgId, el, orig, out, passes,
                   string, ins, ins2, res, tag, yielded>>

NextInsert == InsertFirst \/ InsertSecond

SpecInsert == InitInsert /\ [][NextInsert]_vars

\* the rewrite as the claim words it: underscores to hyphens, the prefix up
\* to the last "#" kept, the rest split at its last hyphen and put together
\* as before-u-after without the empty segments and their separators
ClaimedInsert(s, u) ==
    RPartition(Replace(s, "_", "-"), "#")[1]
    \o RPartition(Replace(s, "_", "-"), "#")[2]
    \o JoinWith(FilterNone(
            <<RPartition(RPartition(Replace(s, "_", "-"), "#")[3], "-")[1],
              u,
              RPartition(RPartition(Replace(s, "_", "-"), "#")[3], "-")[3]>>),
         <<"-">>)

\* C1: insert(s, u) is s with underscores as hyphens, the prefix up to the
\* last "#" kept, and the rest reassembled as before-u-after with empty
\* segments and their separators left out (no hyphen gained from an empty
\* segment); the three examples come out as written
C1_InsertStructure ==
    pc \in {"first", "both"} =>
        /\ res = ClaimedInsert(string, ins)
        /\ \A x \in Examples : (string = x.s /\ ins = x.u) => res = x.r

\* C8: for two distinct unique ids and an identifier with at least one
\* hyphen the two rewritten identifiers differ
C8_UniquifySeparates ==
    (pc = "both" /\ ins # ins2 /\ "-" \in ToSet(string)) => res # res2

C8_Witness ==
    /\ pc = "both"
    /\ ins # ins2
    /\ Len(ins) # Len(ins2)
    /\ string = <<"a", "-", "a">>
    /\ res # res2

----------------------------------------------------------------------------
(* slim on its own, called again and again on one document *)

SlimAlphabet == {"a", " ", "\t", "\n"}

SlimTexts == {None, Some(<<>>), Some(<<" ", "\n">>), Some(<<" ", "a", "\n">>)}

\* a root with text and an attribute value v, and a child with a tail
SlimDoc(v, text, tail) ==
    [n \in {0, 1} |->
        IF n = 0
        THEN Elem("svg", Dict(<< <<"d", v>> >>), text, None, <<1>>)
        ELSE Elem("g", Dict(<< <<"class", <<" ", "a", " ", " ", "b">>>> >>),
                  None, tail, <<>>)]

SlimDocs ==
    { SlimDoc(v, text, tail) :
        v \in StrUpTo(SlimAlphabet, MaxLen),
        text \in SlimTexts,
        tail \in {None, Some(<<"\n", " ">>)} }

InitSlim ==
    /\ pc = "svg"
    /\ err = "" /\ entry = "" /\ idArg = None /\ svgId = None
    /\ el \in SlimDocs
    /\ orig = el
    /\ out = None
    /\ passes = <<>>
    /\ NoInsert
    /\ NoIter

\* svg.slim(); orig keeps the tree as it was before the call
SlimAgain ==
    /\ pc = "svg"
    /\ Len(passes) < MaxSlims
    /\ orig' = el
    /\ el' = SVG_slim(el)
    /\ passes' = Append(passes, "slim")
    /\ UNCHANGED <<pc, err, entry, idArg, svgId, out,
                   string, ins, ins2, res, res2, tag, yielded>>

NextSlim == SlimAgain

SpecSlim == InitSlim /\ [][NextSlim]_vars

RECURSIVE CollapseFrom(_, _)
\* every whitespace run from position i on replaced by one space
CollapseFrom(s, i) ==
    IF i > Len(s) THEN <<>>
    ELSE IF s[i] \in Whitespace
    THEN <<" ">> \o CollapseFrom(s, i + RunLen(s, i))
    ELSE <<s[i]>> \o CollapseFrom(s, i + 1)

\* the value as the claim words it: trimmed, each run one space
Collapsed(s) == CollapseFrom(Strip(s), 1)

\* C6: slim replaces each maximal run of whitespace (space, tab, newline)
\* inside an attribute value by one space and removes leading and trailing
\* whitespace, so that the only whitespace left is single spaces
C6_RunsBecomeOneSpace ==
    Len(passes) = 1 =>
        \A n \in Nodes(el) : \A k \in DOMAIN el[n].attrib :
            /\ el[n].attrib[k] = Collapsed(orig[n].attrib[k])
            /\ \A i \in 1..Len(el[n].attrib[k]) :
                el[n].attrib[k][i] \in Whitespace =>
                    /\ el[n].attrib[k][i] = " "
                    /\ i > 1 /\ i < Len(el[n].attrib[k])
                    /\ el[n].attrib[k][i+1] \notin Whitespace

\* C7: a second slim changes nothing: text, tail and attribute values of
\* every element are as the first slim left them
C7_SlimIdempotent ==
    Len(passes) >= 2 => el = orig

C7_Witness ==
    /\ Len(passes) = 2
    /\ el = orig
    /\ el[Root].text = Some(<<>>)
    /\ el[Root].attrib["d"] = <<"a", "\t", "a">>
    /\ el[1].tail = None

----------------------------------------------------------------------------
(* SVG.iter on its own *)

IterTags == {"path", "g", "*"}

\* the tree in which node i has the parent p[i] and the tag tg[i]; the
\* children of a node come in the order of their numbers
Tree(p, tg) ==
    [n \in 0..MaxNodes |->
        Elem(IF n = 0 THEN "svg" ELSE tg[n], Dict(<<>>), None, None,
             SelectSeq([i \in 1..MaxNodes |-> i], LAMBDA c : p[c] = n))]

IterTrees ==
    { Tree(p, tg) :
        p \in {q \in [1..MaxNodes -> 0..(MaxNodes - 1)] :
                    \A i \in 1..MaxNodes : q[i] < i},
        tg \in [1..MaxNodes -> {"path", "g"}] }

InitIter ==
    /\ pc = "svg"
    /\ err = "" /\ entry = "" /\ idArg = None /\ svgId = None
    /\ el \in IterTrees
    /\ orig = el
    /\ out = None
    /\ passes = <<>>
    /\ NoInsert
    /\ NoIter

\* list(svg.iter(tg)), on a fresh SVG or after an earlier walk
Iter ==
    /\ \E tg \in IterTags :
        /\ tag' = tg
        /\ yielded' = iter(el, tg)
    /\ pc' = "iterated"
    /\ UNCHANGED <<err, entry, idArg, svgId, el, orig, out, passes,
                   string, ins, ins2, res, res2>>

NextIter == Iter

SpecIter == InitIter /\ [][NextIter]_vars

RECURSIVE PreOrder(_, _)
\* the elements of the subtree of n in depth-first pre-order
PreOrder(t, n) ==
    <<n>> \o Join([i \in 1..Len(t[n].children) |->
                        PreOrder(t, t[n].children[i])])

Matches(t, n, path) == path = "*" \/ t[n].tag = path

\* the children of n that match, in document order
MatchingChildren(t, n, path) ==
    SelectSeq(t[n].children, LAMBDA c : Matches(t, c, path))

\* the matching descendants of the root in depth-first pre-order
PreOrderMatches(t, path) ==
    SelectSeq(Tail(PreOrder(t, Root)), LAMBDA n : Matches(t, n, path))

\* a is a proper ancestor of d
RECURSIVE IsAncestor(_, _, _)
IsAncestor(t, a, d) ==
    \E i \in 1..Len(t[a].children) :
        t[a].children[i] = d \/ IsAncestor(t, t[a].children[i], d)

\* each matching descendant of the root is yielded exactly once, and no
\* element after one of its own descendants
OnceEachAncestorsFirst ==
    /\ ToSet(yielded) = {n \in Nodes(el) \ {Root} : Matches(el, n, tag)}
    /\ Len(yielded) = Cardinality(ToSet(yielded))
    /\ \A i \in 1..Len(yielded) : \A j \in (i+1)..Len(yielded) :
            ~IsAncestor(el, yielded[j], yielded[i])

\* C9 as stated: SVG.iter(tag) yields the matching descendants of the root,
\* each once, in depth-first pre-order
C9_AsStated ==
    pc = "iterated" =>
        /\ OnceEachAncestorsFirst
        /\ yielded = PreOrderMatches(el, tag)

\* C9 amended: SVG.iter(tag) yields each matching descendant of the root
\* exactly once and an element before its own descendants, in this order:
\* for each element in pre-order, the root first, the matching children of
\* that element; so the matching children of an element all come before the
\* descendants of any of them
C9_ChildrenBeforeDescendants ==
    pc = "iterated" =>
        /\ OnceEachAncestorsFirst
        /\ yielded =
            Join([i \in 1..Len(PreOrder(el, Root)) |->
                    MatchingChildren(el, PreOrder(el, Root)[i], tag)])

C9_Witness ==
    /\ pc = "iterated"
    /\ tag = "path"
    /\ Len(yielded) >= 3
    /\ yielded # PreOrderMatches(el, tag)
    /\ IsAncestor(el, yielded[1], yielded[3])

====
